---- MODULE Spec2Model ----
(***************************************************************************)
(* A model of rsc/2fa (src/main.go): the keychain file $HOME/.2fa, the     *)
(* loader readKeychain, and the operations list, add, code, show, showAll  *)
(* as main dispatches them.                                                *)
(*                                                                         *)
(* Bytes are one-character strings, byte strings are sequences of them.    *)
(* A uint64 is kept in full width as its 20 decimal digits (most           *)
(* significant first), since 2^64 does not fit TLC's integers.             *)
(* Go's offsets are 0-based: byte o of a buffer is element o+1 here.       *)
(***************************************************************************)
EXTENDS Integers, Sequences, FiniteSets, TLC

(* ------------------------------------------------------------------ *)
(* Bytes and strings                                                   *)
(* ------------------------------------------------------------------ *)

\* The bytes the model draws from, in ASCII order.
Ascii ==
  << "\t", "\n", "\r", " ",
     "0", "1", "2", "3", "4", "5", "6", "7", "8", "9", "=",
     "A", "B", "C", "D", "E", "F", "G", "H", "I", "J", "K", "L", "M",
     "N", "O", "P", "Q", "R", "S", "T", "U", "V", "W", "X", "Y", "Z",
     "a", "b", "c", "d", "e", "f", "g", "h", "i", "j", "k", "l", "m",
     "n", "o", "p", "q", "r", "s", "t", "u", "v", "w", "x", "y", "z" >>

Ord(c) == CHOOSE i \in 1..Len(Ascii) : Ascii[i] = c

Rep(c, n) == [i \in 1..n |-> c]

NL == "\n"
SP == " "

\* unicode.IsSpace, on the model's bytes.
IsSpace(c) == c \in {"\t", "\n", "\r", " "}

DigitChars == <<"0", "1", "2", "3", "4", "5", "6", "7", "8", "9">>
IsDigit(c) == \E i \in 1..10 : DigitChars[i] = c
DigitVal(c) == (CHOOSE i \in 1..10 : DigitChars[i] = c) - 1

UpperChars == SubSeq(Ascii, 16, 41)
LowerChars == SubSeq(Ascii, 42, 67)

\* strings.ToUpper
ToUpperChar(c) ==
  IF \E i \in 1..26 : LowerChars[i] = c
  THEN UpperChars[CHOOSE i \in 1..26 : LowerChars[i] = c]
  ELSE c
ToUpper(s) == [i \in 1..Len(s) |-> ToUpperChar(s[i])]

\* Lexicographic byte order, as sort.Strings compares.
StrLess(a, b) ==
  \/ Len(a) < Len(b) /\ \A i \in 1..Len(a) : a[i] = b[i]
  \/ \E i \in 1..Len(a) :
       /\ i <= Len(b)
       /\ Ord(a[i]) < Ord(b[i])
       /\ \A j \in 1..(i - 1) : a[j] = b[j]

RECURSIVE SortStrings(_)
SortStrings(S) ==
  IF S = {} THEN <<>>
  ELSE LET m == CHOOSE x \in S : \A y \in S \ {x} : StrLess(x, y)
       IN <<m>> \o SortStrings(S \ {m})

\* bytes.Split(s, sep) for a one-byte separator.
RECURSIVE Split(_, _)
Split(s, sep) ==
  IF \A i \in 1..Len(s) : s[i] # sep THEN <<s>>
  ELSE LET k == CHOOSE i \in 1..Len(s) :
                  s[i] = sep /\ \A j \in 1..(i - 1) : s[j] # sep
       IN <<SubSeq(s, 1, k - 1)>> \o Split(SubSeq(s, k + 1, Len(s)), sep)

\* bytes.SplitAfter(s, sep) for a one-byte separator.
RECURSIVE SplitAfter(_, _)
SplitAfter(s, sep) ==
  IF \A i \in 1..Len(s) : s[i] # sep THEN <<s>>
  ELSE LET k == CHOOSE i \in 1..Len(s) :
                  s[i] = sep /\ \A j \in 1..(i - 1) : s[j] # sep
       IN <<SubSeq(s, 1, k)>> \o SplitAfter(SubSeq(s, k + 1, Len(s)), sep)

\* bytes.TrimSuffix(line, "\n")
TrimNL(line) ==
  IF Len(line) > 0 /\ line[Len(line)] = NL
  THEN SubSeq(line, 1, Len(line) - 1)
  ELSE line

(* ------------------------------------------------------------------ *)
(* uint64 in decimal: strconv.ParseUint, n++, Sprintf("%0*d")          *)
(* ------------------------------------------------------------------ *)

counterLen == 20

Zero64 == [i \in 1..20 |-> 0]

\* 18446744073709551615 = 2^64 - 1
MaxUint64 == <<1, 8, 4, 4, 6, 7, 4, 4, 0, 7, 3, 7, 0, 9, 5, 5, 1, 6, 1, 5>>

U64Less(a, b) ==
  \E i \in 1..20 : a[i] < b[i] /\ \A j \in 1..(i - 1) : a[j] = b[j]

\* strconv.ParseUint(s, 10, 64): no sign, no underscore, digits only; a value
\* above 2^64-1 is a range error.
ParseUint(s) ==
  IF Len(s) = 0 \/ \E i \in 1..Len(s) : ~IsDigit(s[i])
  THEN [err |-> TRUE, n |-> Zero64]
  ELSE LET L == Len(s)
           low == [i \in 1..20 |->
                    IF i + L - 20 >= 1 THEN DigitVal(s[i + L - 20]) ELSE 0]
           over == \/ \E i \in 1..(L - 20) : s[i] # "0"
                   \/ U64Less(MaxUint64, low)
       IN IF over THEN [err |-> TRUE, n |-> MaxUint64]
          ELSE [err |-> FALSE, n |-> low]

\* n++ on a uint64: wraps from 2^64-1 to 0.
Inc64(n) ==
  IF n = MaxUint64 THEN Zero64
  ELSE LET k == CHOOSE i \in 1..20 :
                  n[i] # 9 /\ \A j \in (i + 1)..20 : n[j] = 9
       IN [i \in 1..20 |-> IF i < k THEN n[i] ELSE IF i = k THEN n[k] + 1 ELSE 0]

\* fmt.Sprintf("%0*d", counterLen, n) for a uint64 n: at most 20 digits, so the
\* zero-padded text is exactly counterLen bytes.
FormatCounter(n) == [i \in 1..counterLen |-> DigitChars[n[i] + 1]]

\* A small natural number as a uint64.
NatToU64(k) ==
  [i \in 1..20 |-> IF i > 11 THEN (k \div (10 ^ (20 - i))) % 10 ELSE 0]

(* ------------------------------------------------------------------ *)
(* decodeKey: base32.StdEncoding.DecodeString(strings.ToUpper(key))    *)
(* ------------------------------------------------------------------ *)

\* RFC 4648 alphabet: A-Z, 2-7.
encodeStd == UpperChars \o <<"2", "3", "4", "5", "6", "7">>
InAlphabet(c) == \E i \in 1..32 : encodeStd[i] = c
B32Val(c) == (CHOOSE i \in 1..32 : encodeStd[i] = c) - 1

\* The bytes of one quantum whose first dlen characters carry data.
QuantumBytes(q, dlen) ==
  LET bit(k) == (B32Val(q[(k \div 5) + 1]) \div (2 ^ (4 - (k % 5)))) % 2
      byte(i) == bit(8 * i) * 128 + bit(8 * i + 1) * 64 + bit(8 * i + 2) * 32
                 + bit(8 * i + 3) * 16 + bit(8 * i + 4) * 8 + bit(8 * i + 5) * 4
                 + bit(8 * i + 6) * 2 + bit(8 * i + 7)
  IN [i \in 1..((dlen * 5) \div 8) |-> byte(i - 1)]

\* Padded decoding, quantum by quantum: the input is whole 8-character quanta;
\* '=' may only fill the tail of the last one, after 2, 4, 5 or 7 data
\* characters.
RECURSIVE b32Decode(_)
b32Decode(src) ==
  IF Len(src) = 0 THEN [err |-> FALSE, raw |-> <<>>]
  ELSE IF Len(src) < 8 THEN [err |-> TRUE, raw |-> <<>>]
  ELSE LET q == SubSeq(src, 1, 8)
           rest == SubSeq(src, 9, Len(src))
           dlen == CHOOSE j \in 0..8 :
                     /\ \A i \in 1..j : InAlphabet(q[i])
                     /\ j < 8 => ~InAlphabet(q[j + 1])
       IN IF dlen = 8
          THEN LET r == b32Decode(rest)
               IN [err |-> r.err,
                   raw |-> IF r.err THEN <<>> ELSE QuantumBytes(q, 8) \o r.raw]
          ELSE IF /\ dlen \in {2, 4, 5, 7}
                  /\ \A i \in (dlen + 1)..8 : q[i] = "="
                  /\ Len(rest) = 0
               THEN [err |-> FALSE, raw |-> QuantumBytes(q, dlen)]
               ELSE [err |-> TRUE, raw |-> <<>>]

\* A faulty decodeKey: without strings.ToUpper, so case-sensitive.
decodeKeyCaseSensitive(key) ==
  b32Decode(SelectSeq(key, LAMBDA c : c \notin {"\r", "\n"}))

\* DecodeString drops '\r' and '\n' before decoding.
decodeKey(key) ==
  b32Decode(SelectSeq(ToUpper(key), LAMBDA c : c \notin {"\r", "\n"}))

(* ------------------------------------------------------------------ *)
(* hotp, totp                                                          *)
(* ------------------------------------------------------------------ *)

\* hotp: HMAC-SHA1 of the 8-byte big-endian counter under the key, truncated
\* and reduced modulo 10^min(digits, 8).  The digest is not computed: a code is
\* the term of what it was computed from, so two codes are equal exactly when
\* key, counter and modulus are.
hotp(key, counter, digits) ==
  [key |-> key, counter |-> counter, digits |-> IF digits < 8 THEN digits ELSE 8]

\* A time.Time t is [sec, nsec]: nsec nanoseconds (0 .. 10^9 - 1) after sec
\* seconds since the epoch.  t.UnixNano() is the int64 sec * 10^9 + nsec, kept
\* as the two limbs [hi, lo] of that number in base 10^9; for a time at or after
\* the epoch uint64(...) keeps its value.
UnixNano(t) == [hi |-> t.sec, lo |-> t.nsec]

\* u / 30e9 for a uint64 u = hi * 10^9 + lo with 0 <= lo < 10^9: the integer
\* quotient by 30 * 10^9, which the low limb cannot change.
DivBy30e9(u) == u.hi \div 30

\* A faulty totp: the time is rounded to the nearest step, not truncated.
totpRounded(key, t, digits) ==
  hotp(key, NatToU64((UnixNano(t).hi + 15) \div 30), digits)

\* totp: hotp(key, uint64(t.UnixNano())/30e9, digits)
totp(key, t, digits) == hotp(key, NatToU64(DivBy30e9(UnixNano(t))), digits)

(* ------------------------------------------------------------------ *)
(* readKeychain                                                        *)
(* ------------------------------------------------------------------ *)

\* c.file
KeychainFile == "$HOME/.2fa"

NoKeys == [x \in {} |-> 0]

\* A faulty c.keys[name] = k: an entry that exists is kept.
PutKeyFirstWins(keys, name, k) ==
  [x \in (DOMAIN keys) \cup {name} |-> IF x \in DOMAIN keys THEN keys[x] ELSE k]

\* c.keys[name] = k
PutKey(keys, name, k) ==
  [x \in (DOMAIN keys) \cup {name} |-> IF x = name THEN k ELSE keys[x]]

MalformedLine == [ok |-> FALSE, key |-> [raw |-> <<>>, digits |-> 0, offset |-> 0]]

\* A faulty loop body: the counter field of a 4-field line is not checked.
ParseLineAnyCounter(f, line, offset) ==
  IF /\ Len(f) >= 3
     /\ Len(f[2]) = 1
     /\ Ord("6") <= Ord(f[2][1])
     /\ Ord(f[2][1]) <= Ord("8")
  THEN LET digits == Ord(f[2][1]) - Ord("0")
           d == decodeKey(f[3])
       IN IF d.err THEN MalformedLine
          ELSE IF Len(f) = 3
          THEN [ok |-> TRUE, key |-> [raw |-> d.raw, digits |-> digits, offset |-> 0]]
          ELSE IF Len(f) = 4 /\ offset - Len(line) + 4 <= offset - counterLen - 1
          THEN [ok |-> TRUE,
                key |-> [raw |-> d.raw, digits |-> digits,
                         offset |-> (offset - counterLen)
                                    - (IF line[Len(line)] = NL THEN 1 ELSE 0)]]
          ELSE MalformedLine
  ELSE MalformedLine

\* A faulty loop body: the offset of the counter does not allow for the newline
\* that ends the line.
ParseLineNoNewline(f, line, offset) ==
  IF /\ Len(f) >= 3
     /\ Len(f[2]) = 1
     /\ Ord("6") <= Ord(f[2][1])
     /\ Ord(f[2][1]) <= Ord("8")
  THEN LET digits == Ord(f[2][1]) - Ord("0")
           d == decodeKey(f[3])
       IN IF d.err THEN MalformedLine
          ELSE IF Len(f) = 3
          THEN [ok |-> TRUE, key |-> [raw |-> d.raw, digits |-> digits, offset |-> 0]]
          ELSE IF Len(f) = 4 /\ Len(f[4]) = counterLen /\ ~ParseUint(f[4]).err
          THEN [ok |-> TRUE,
                key |-> [raw |-> d.raw, digits |-> digits, offset |-> offset - counterLen]]
          ELSE MalformedLine
  ELSE MalformedLine

\* The body of the loop for a non-blank line split into fields f; offset is the
\* offset of the end of the line: [ok, key].
ParseLine(f, line, offset) ==
  IF /\ Len(f) >= 3
     /\ Len(f[2]) = 1
     /\ Ord("6") <= Ord(f[2][1])
     /\ Ord(f[2][1]) <= Ord("8")
  THEN LET digits == Ord(f[2][1]) - Ord("0")
           d == decodeKey(f[3])
       IN IF d.err THEN MalformedLine
          ELSE IF Len(f) = 3
          THEN [ok |-> TRUE, key |-> [raw |-> d.raw, digits |-> digits, offset |-> 0]]
          ELSE IF Len(f) = 4 /\ Len(f[4]) = counterLen /\ ~ParseUint(f[4]).err
          THEN [ok |-> TRUE,
                key |-> [raw |-> d.raw, digits |-> digits,
                         offset |-> (offset - counterLen)
                                    - (IF line[Len(line)] = NL THEN 1 ELSE 0)]]
          ELSE MalformedLine
  ELSE MalformedLine

\* A faulty lineno: the 0-based index of the loop.
LinenoZeroBased(i) == i

\* lineno := i + 1
Lineno(i) == i + 1

\* len(f) == 1 && len(f[0]) == 0: the line is empty, and is skipped.
IsBlank(f) == Len(f) = 1 /\ Len(f[1]) = 0

\* The loop over the lines from index i (0-based, as in the source) on: the
\* keys and the log lines ("file:lineno: malformed key") so far are passed
\* along.
RECURSIVE ReadLines(_, _, _, _, _)
ReadLines(lines, i, offset0, keys, log) ==
  IF i >= Len(lines) THEN [keys |-> keys, log |-> log]
  ELSE LET line == lines[i + 1]
           offset == offset0 + Len(line)
           f == Split(TrimNL(line), SP)
       IN IF IsBlank(f)
          THEN ReadLines(lines, i + 1, offset, keys, log)
          ELSE LET r == ParseLine(f, line, offset)
               IN IF r.ok
                  THEN ReadLines(lines, i + 1, offset, PutKey(keys, f[1], r.key), log)
                  ELSE ReadLines(lines, i + 1, offset, keys,
                                 Append(log, [file |-> KeychainFile,
                                              lineno |-> Lineno(i)]))

EmptyKeychain == [data |-> <<>>, keys |-> NoKeys]

\* readKeychain on a file that exists and was read: [kc, log].
readKeychain(data) ==
  LET r == ReadLines(SplitAfter(data, NL), 0, 0, NoKeys, <<>>)
  IN [kc |-> [data |-> data, keys |-> r.keys], log |-> r.log]

\* c.data[k.offset : k.offset+counterLen]
CounterBytes(data, offset) == SubSeq(data, offset + 1, offset + counterLen)

\* f.WriteAt(b, off) on a file holding data.
WriteAt(data, b, off) ==
  [i \in 1..(IF Len(data) > off + Len(b) THEN Len(data) ELSE off + Len(b)) |->
     IF i > off /\ i <= off + Len(b) THEN b[i - off]
     ELSE IF i <= Len(data) THEN data[i] ELSE "0"]

(* ------------------------------------------------------------------ *)
(* Bounds and inputs                                                   *)
(* ------------------------------------------------------------------ *)

\* Invocations of the program in one behaviour.
MaxInvocations == 2
\* Invocations of "2fa -add" in one behaviour.
MaxAdds == 1
\* Codes one loaded Keychain is asked for in ApiSpec.
MaxCodes == 2
\* I/O calls (read, open, write, close) that fail in one behaviour.
MaxIOFailures == 1
\* Lines of the files the loader is run on in LoadSpec.
MaxInitLines == 3

\* One process runs at a time in Spec; the second takes part in overlapping runs.
Procs == {1, 2}

Line3(name, d, secret) == name \o <<SP, d, SP>> \o secret
Line4(name, d, secret, ctr) == Line3(name, d, secret) \o <<SP>> \o ctr

SecretME == <<"M", "E", "=", "=", "=", "=", "=", "=">>
Secretme == <<"m", "e", "=", "=", "=", "=", "=", "=">>
SecretBad == <<"M", "1", "=", "=", "=", "=", "=", "=">>
NearMax == <<1, 8, 4, 4, 6, 7, 4, 4, 0, 7, 3, 7, 0, 9, 5, 5, 1, 6, 1, 4>>

\* Lines a keychain file may hold before the first invocation: records of
\* both kinds, counters at 0 and at the top of the uint64 range, and lines
\* that fail each check of the loader.
InitLines ==
  { Line3(<<"a">>, "6", SecretME),
    Line4(<<"b">>, "7", Secretme, Rep("0", 20)),
    Line4(<<"b">>, "8", SecretME, FormatCounter(MaxUint64)),
    Line4(<<"a">>, "6", SecretME, FormatCounter(NearMax)),
    Line3(<<"a">>, "9", SecretME),
    Line3(<<"b">>, "6", SecretBad),
    Line4(<<"b">>, "6", SecretME, Rep("9", 20)),
    Line4(<<"b">>, "6", SecretME, <<"1">>),
    Line4(<<"a">>, "6", SecretME, Rep("0", 20)) \o <<SP, "x">>,
    Line4(<<>>, "6", <<>>, Rep("0", 20)),
    <<"a", SP, "6">>,
    <<SP>>,
    <<>> }

RECURSIVE JoinLines(_, _)
JoinLines(ls, lastNL) ==
  IF Len(ls) = 0 THEN <<>>
  ELSE IF Len(ls) = 1 THEN (IF lastNL THEN ls[1] \o <<NL>> ELSE ls[1])
  ELSE ls[1] \o <<NL>> \o JoinLines(Tail(ls), lastNL)

NoFile == [exists |-> FALSE, data |-> <<>>]
FileOf(data) == [exists |-> TRUE, data |-> data]

\* The file before the first invocation: absent, empty, or one line with or
\* without its newline; add makes the longer ones.
InitDisks ==
  {NoFile, FileOf(<<>>)} \cup
  { FileOf(JoinLines(<<l>>, nl)) : l \in InitLines, nl \in BOOLEAN }

\* The files of LoadSpec: up to MaxInitLines lines, the last with or without
\* its newline.
LoadDisks ==
  { FileOf(JoinLines(ls, nl)) :
      ls \in UNION {[1..n -> InitLines] : n \in 0..MaxInitLines},
      nl \in BOOLEAN }

\* Names given on the command line of "2fa name" and of "2fa -add name".
InputNames == {<<>>, <<"a">>, <<"b">>, <<"a", SP, "b">>}
AddNames == {<<"b">>, <<"a", SP, "b">>}
\* Lines typed at the "2fa key for name:" prompt.
InputTexts == {<<"m", SP, "e", NL>>, <<"m", "1", NL>>}
\* time.Now(), in seconds since the epoch.
Times ==
  { [sec |-> 29, nsec |-> 999999999],
    [sec |-> 59, nsec |-> 999999999],
    [sec |-> 60, nsec |-> 0],
    [sec |-> 1700000000, nsec |-> 1] }

(* ------------------------------------------------------------------ *)
(* State                                                               *)
(* ------------------------------------------------------------------ *)

VARIABLES
  disk,     \* the file $HOME/.2fa: [exists, data]
  pc,       \* pc[p]: where invocation p stands
  kc,       \* kc[p]: the Keychain c of invocation p: [data, keys]
  log,      \* log[p]: the "malformed key" lines logged by readKeychain
  cmd,      \* cmd[p]: the operation main dispatched to, and its arguments
  loc,      \* loc[p]: the local variables of code (name, n, code) and add (line)
  out,      \* out[p]: the lines printed on standard output
  err,      \* err[p]: the message of log.Fatal, "" when none
  before,   \* before[p]: the file as it was when invocation p started
  issued,   \* the counter-based codes printed so far: [name, offset, counter]
  lastAdd,  \* the add that completed last: its arguments, the file before and after
  ninv,     \* invocations started
  nadd,     \* invocations of add among them
  nfail     \* I/O failures so far

vars == <<disk, pc, kc, log, cmd, loc, out, err, before, issued, lastAdd,
          ninv, nadd, nfail>>

NoCode == hotp(<<>>, Zero64, 0)
NoCmd == [op |-> "", name |-> <<>>, text |-> <<>>, flag7 |-> FALSE,
          flag8 |-> FALSE, flagHotp |-> FALSE]
NoTime == [sec |-> 0, nsec |-> 0]
NoLocals == [name |-> <<>>, n |-> Zero64, code |-> NoCode, line |-> <<>>, now |-> NoTime]
NoAdd == [done |-> FALSE, name |-> <<>>, size |-> 0, text |-> <<>>,
          flagHotp |-> FALSE, prior |-> NoFile, after |-> NoFile]

\* Output fields: fmt.Sprintf("%0*d", k.digits, code), and
\* strings.Repeat("-", k.digits).
FormatCode(digits, c) == [width |-> digits, dashes |-> FALSE, code |-> c]
Dashes(n) == [width |-> n, dashes |-> TRUE, code |-> NoCode]
NoText == [width |-> 0, dashes |-> FALSE, code |-> NoCode]

\* A line of output: the code column (padded to col), the name column, and
\* the key the code is of.
OutLine(text, name, col, key) == [text |-> text, name |-> name, col |-> col, of |-> key]

InitWith(disks) ==
  /\ disk \in disks
  /\ pc = [p \in Procs |-> "idle"]
  /\ kc = [p \in Procs |-> EmptyKeychain]
  /\ log = [p \in Procs |-> <<>>]
  /\ cmd = [p \in Procs |-> NoCmd]
  /\ loc = [p \in Procs |-> NoLocals]
  /\ out = [p \in Procs |-> <<>>]
  /\ err = [p \in Procs |-> ""]
  /\ before = [p \in Procs |-> disk]
  /\ issued = <<>>
  /\ lastAdd = NoAdd
  /\ ninv = 0
  /\ nadd = 0
  /\ nfail = 0

Init == InitWith(InitDisks)

(* ------------------------------------------------------------------ *)
(* Steps of an invocation                                              *)
(* ------------------------------------------------------------------ *)

Fatal(p, msg) ==
  /\ pc' = [pc EXCEPT ![p] = "fatal"]
  /\ err' = [err EXCEPT ![p] = msg]

Goto(p, l) == pc' = [pc EXCEPT ![p] = l]

IOFail(p, msg) ==
  /\ nfail < MaxIOFailures
  /\ nfail' = nfail + 1
  /\ Fatal(p, msg)

\* strings.IndexFunc(name, unicode.IsSpace) >= 0
HasSpace(name) == \E i \in 1..Len(name) : IsSpace(name[i])

\* A faulty readKeychain: a missing file is an error.
LoadMissingFatal(p) ==
  /\ pc[p] = "idle"
  /\ ninv < MaxInvocations
  /\ before' = [before EXCEPT ![p] = disk]
  /\ ninv' = ninv + 1
  /\ IF disk.exists
     THEN /\ kc' = [kc EXCEPT ![p] = readKeychain(disk.data).kc]
          /\ log' = [log EXCEPT ![p] = readKeychain(disk.data).log]
          /\ Goto(p, "loaded")
          /\ UNCHANGED err
     ELSE /\ Fatal(p, "read")
          /\ UNCHANGED <<kc, log>>
  /\ UNCHANGED <<disk, cmd, loc, out, issued, lastAdd, nadd, nfail>>

\* main: k := readKeychain(...).  A missing file gives the empty keychain.
Load(p) ==
  /\ pc[p] = "idle"
  /\ ninv < MaxInvocations
  /\ LET r == IF disk.exists THEN readKeychain(disk.data)
              ELSE [kc |-> EmptyKeychain, log |-> <<>>]
     IN /\ kc' = [kc EXCEPT ![p] = r.kc]
        /\ log' = [log EXCEPT ![p] = r.log]
  /\ before' = [before EXCEPT ![p] = disk]
  /\ ninv' = ninv + 1
  /\ Goto(p, "loaded")
  /\ UNCHANGED <<disk, cmd, loc, out, err, issued, lastAdd, nadd, nfail>>

\* readKeychain: ioutil.ReadFile fails on a file that exists.
LoadFail(p) ==
  /\ pc[p] = "idle"
  /\ ninv < MaxInvocations
  /\ disk.exists
  /\ before' = [before EXCEPT ![p] = disk]
  /\ ninv' = ninv + 1
  /\ IOFail(p, "read")
  /\ UNCHANGED <<disk, kc, log, cmd, loc, out, issued, lastAdd, nadd>>

\* k.list(): the names, sorted.
List(p) ==
  /\ pc[p] = "loaded"
  /\ cmd' = [cmd EXCEPT ![p] = [NoCmd EXCEPT !.op = "list"]]
  /\ LET names == SortStrings(DOMAIN kc[p].keys)
     IN out' = [out EXCEPT ![p] =
                  @ \o [i \in 1..Len(names) |-> OutLine(NoText, names[i], 0, <<>>)]]
  /\ Goto(p, "done")
  /\ UNCHANGED <<disk, kc, log, loc, err, before, issued, lastAdd, ninv, nadd, nfail>>

\* c.data[k.offset : k.offset+counterLen]
CounterField(c, k) == CounterBytes(c.data, k.offset)

\* A faulty code: the counter is advanced by two.
NextCounterByTwo(c, k) == Inc64(Inc64(ParseUint(CounterField(c, k)).n))

\* code: n, after n++.
NextCounter(c, k) == Inc64(ParseUint(CounterField(c, k)).n)

\* The zero value of Key, which a map gives for a name it does not hold.
ZeroKey == [raw |-> <<>>, digits |-> 0, offset |-> 0]

\* A faulty code: ok is not looked at.
KeyOfUnchecked(c, name) ==
  [ok |-> TRUE, k |-> IF name \in DOMAIN c.keys THEN c.keys[name] ELSE ZeroKey]

\* code: k, ok := c.keys[name]
KeyOf(c, name) ==
  IF name \in DOMAIN c.keys THEN [ok |-> TRUE, k |-> c.keys[name]]
  ELSE [ok |-> FALSE, k |-> ZeroKey]

\* A faulty code: the test of the offset never holds.
HasCounterNever(k) == k.offset < 0

\* code: if k.offset != 0
HasCounter(k) == k.offset # 0

\* code: the value of the variable code for key k, read at time t.
CodeValue(c, k, t) ==
  IF HasCounter(k) THEN hotp(k.raw, NextCounter(c, k), k.digits)
  ELSE totp(k.raw, t, k.digits)

\* A faulty code: the counter is written one byte past the offset of the key.
CounterWrittenShifted(data, k, n, m) ==
  WriteAt(data, SubSeq(FormatCounter(n), 1, m), k.offset + 1)

\* The file after code's f.WriteAt has put the first m bytes of the counter n
\* of key k.
CounterWritten(data, k, n, m) ==
  WriteAt(data, SubSeq(FormatCounter(n), 1, m), k.offset)

\* max over the keys of k.digits
MaxDigits(keys) ==
  IF DOMAIN keys = {} THEN 0
  ELSE CHOOSE m \in {keys[x].digits : x \in DOMAIN keys} :
         \A x \in DOMAIN keys : keys[x].digits <= m

\* A faulty showAll: c.code(name) is called for every key.
ShowAllCallsAlways(k) == TRUE

\* showAll: whether c.code(name) is called for key k.
ShowAllCalls(k) == k.offset = 0

\* showAll: the code column of key k, at time t.
ShowAllCode(c, k, t) ==
  IF ShowAllCalls(k) THEN FormatCode(k.digits, CodeValue(c, k, t))
  ELSE Dashes(k.digits)

\* The file after the calls of code that showAll makes for the keys in names:
\* a call for a counter-based key rewrites its counter.
RECURSIVE ShowAllFile(_, _, _)
ShowAllFile(d, c, names) ==
  IF names = <<>> THEN d
  ELSE LET k == c.keys[Head(names)]
       IN IF ShowAllCalls(k) /\ k.offset # 0 /\ d.exists
          THEN ShowAllFile(FileOf(CounterWritten(d.data, k, NextCounter(c, k), counterLen)),
                           c, Tail(names))
          ELSE ShowAllFile(d, c, Tail(names))

\* k.showAll(): one line per name, sorted; time.Now() is read per key.
ShowAll(p) ==
  /\ pc[p] = "loaded"
  /\ cmd' = [cmd EXCEPT ![p] = [NoCmd EXCEPT !.op = "showAll"]]
  /\ LET names == SortStrings(DOMAIN kc[p].keys)
     IN /\ \E now \in [DOMAIN kc[p].keys -> Times] :
             out' = [out EXCEPT ![p] =
                       @ \o [i \in 1..Len(names) |->
                               OutLine(ShowAllCode(kc[p], kc[p].keys[names[i]], now[names[i]]),
                                       names[i], MaxDigits(kc[p].keys), names[i])]]
        /\ disk' = ShowAllFile(disk, kc[p], names)
  /\ Goto(p, "done")
  /\ UNCHANGED <<kc, log, loc, err, before, issued, lastAdd, ninv, nadd, nfail>>

\* main: k.show(name), up to the point where code opens the file (a
\* counter-based key) or returns (a time-based key).
Show(p, name) ==
  /\ pc[p] = "loaded"
  /\ cmd' = [cmd EXCEPT ![p] = [NoCmd EXCEPT !.op = "show", !.name = name]]
  /\ IF HasSpace(name)
     THEN Fatal(p, "name must not contain spaces") /\ UNCHANGED loc
     ELSE IF ~KeyOf(kc[p], name).ok
     THEN Fatal(p, "no such key") /\ UNCHANGED loc
     ELSE LET k == KeyOf(kc[p], name).k
          IN IF HasCounter(k) /\ ParseUint(CounterField(kc[p], k)).err
             THEN Fatal(p, "malformed key counter") /\ UNCHANGED loc
             ELSE \E t \in (IF HasCounter(k) THEN {NoTime} ELSE Times) :
                    /\ loc' = [loc EXCEPT ![p] =
                                [NoLocals EXCEPT !.name = name,
                                                 !.n = IF HasCounter(k)
                                                       THEN NextCounter(kc[p], k)
                                                       ELSE Zero64,
                                                 !.now = t,
                                                 !.code = CodeValue(kc[p], k, t)]]
                    /\ Goto(p, IF HasCounter(k) THEN "code_open" ELSE "show_print")
                    /\ UNCHANGED err
  /\ UNCHANGED <<disk, kc, log, out, before, issued, lastAdd, ninv, nadd, nfail>>

\* code: os.OpenFile(c.file, os.O_RDWR, 0600)
CodeOpen(p) ==
  /\ pc[p] = "code_open"
  /\ IF disk.exists THEN Goto(p, "code_write") /\ UNCHANGED err
     ELSE Fatal(p, "opening keychain")
  /\ UNCHANGED <<disk, kc, log, cmd, loc, out, before, issued, lastAdd, ninv, nadd, nfail>>

CodeOpenFail(p) ==
  /\ pc[p] = "code_open"
  /\ IOFail(p, "opening keychain")
  /\ UNCHANGED <<disk, kc, log, cmd, loc, out, before, issued, lastAdd, ninv, nadd>>

\* A faulty code: the counter is not written before the code is returned.
CodeWriteSkipped(p) ==
  /\ pc[p] = "code_write"
  /\ Goto(p, "code_close")
  /\ UNCHANGED <<disk, kc, log, cmd, loc, out, err, before, issued, lastAdd, ninv, nadd, nfail>>

\* code: f.WriteAt([]byte(fmt.Sprintf("%0*d", counterLen, n)), int64(k.offset))
CodeWrite(p) ==
  /\ pc[p] = "code_write"
  /\ disk' = FileOf(CounterWritten(disk.data, kc[p].keys[loc[p].name], loc[p].n,
                                   counterLen))
  /\ Goto(p, "code_close")
  /\ UNCHANGED <<kc, log, cmd, loc, out, err, before, issued, lastAdd, ninv, nadd, nfail>>

\* WriteAt fails after m < counterLen bytes.
CodeWriteFail(p) ==
  /\ pc[p] = "code_write"
  /\ \E m \in 0..(counterLen - 1) :
       disk' = FileOf(CounterWritten(disk.data, kc[p].keys[loc[p].name], loc[p].n, m))
  /\ IOFail(p, "updating keychain")
  /\ UNCHANGED <<kc, log, cmd, loc, out, before, issued, lastAdd, ninv, nadd>>

\* code: f.Close(), and the return to show.
CodeClose(p) ==
  /\ pc[p] = "code_close"
  /\ Goto(p, "show_print")
  /\ UNCHANGED <<disk, kc, log, cmd, loc, out, err, before, issued, lastAdd, ninv, nadd, nfail>>

CodeCloseFail(p) ==
  /\ pc[p] = "code_close"
  /\ IOFail(p, "updating keychain")
  /\ UNCHANGED <<disk, kc, log, cmd, loc, out, before, issued, lastAdd, ninv, nadd>>

\* show: fmt.Printf("%s\n", code)
ShowPrint(p) ==
  /\ pc[p] = "show_print"
  /\ LET k == kc[p].keys[loc[p].name]
     IN /\ out' = [out EXCEPT ![p] =
                     Append(@, OutLine(FormatCode(k.digits, loc[p].code), <<>>, 0,
                                       loc[p].name))]
        /\ issued' = IF k.offset # 0
                     THEN Append(issued, [name |-> loc[p].name, offset |-> k.offset,
                                          counter |-> loc[p].code.counter])
                     ELSE issued
  /\ Goto(p, "done")
  /\ UNCHANGED <<disk, kc, log, cmd, loc, err, before, lastAdd, ninv, nadd, nfail>>

\* strings.Map(noSpace, text)
noSpace(text) == SelectSeq(text, LAMBDA c : ~IsSpace(c))

\* text += strings.Repeat("=", -len(text)&7)
PadKey(text) == text \o Rep("=", (8 - (Len(text) % 8)) % 8)

\* add: size, from the flags -7 and -8.
KeySize(flag7, flag8) == IF flag7 THEN 7 ELSE IF flag8 THEN 8 ELSE 6

\* add: the line appended for the key.
KeyLine(name, size, text, flagHotp) ==
  name \o <<SP, DigitChars[size + 1], SP>> \o text
       \o (IF flagHotp THEN <<SP>> \o Rep("0", 20) ELSE <<>>) \o <<NL>>

\* A faulty add: the key typed is not decoded before the line is written.
AddErrorNoDecode(name, flag7, flag8, typed) ==
  IF HasSpace(name) THEN "name must not contain spaces"
  ELSE IF flag7 /\ flag8 THEN "cannot use -7 and -8 together"
  ELSE ""

\* The log.Fatal that main and add end with before add opens the file, ""
\* when none: the name, the flags, the key typed.
AddError(name, flag7, flag8, typed) ==
  IF HasSpace(name) THEN "name must not contain spaces"
  ELSE IF flag7 /\ flag8 THEN "cannot use -7 and -8 together"
  ELSE IF decodeKey(PadKey(noSpace(typed))).err THEN "invalid key"
  ELSE ""

\* main: the check of the name, and k.add(name) up to the point where it
\* opens the file.
Add(p, name, flag7, flag8, flagHotp, typed) ==
  /\ pc[p] = "loaded"
  /\ nadd < MaxAdds
  /\ nadd' = nadd + 1
  /\ cmd' = [cmd EXCEPT ![p] = [op |-> "add", name |-> name, text |-> typed,
                                flag7 |-> flag7, flag8 |-> flag8,
                                flagHotp |-> flagHotp]]
  /\ IF AddError(name, flag7, flag8, typed) # ""
     THEN Fatal(p, AddError(name, flag7, flag8, typed)) /\ UNCHANGED loc
     ELSE /\ loc' = [loc EXCEPT ![p] =
                      [NoLocals EXCEPT !.name = name,
                                       !.line = KeyLine(name, KeySize(flag7, flag8),
                                                        PadKey(noSpace(typed)), flagHotp)]]
          /\ Goto(p, "add_open")
          /\ UNCHANGED err
  /\ UNCHANGED <<disk, kc, log, out, before, issued, lastAdd, ninv, nfail>>

\* add: ReadString fails on standard input (an error, or the end of the input
\* before a newline), after the checks of the name and of the flags.
AddReadFail(p, name, flag7, flag8, flagHotp) ==
  /\ pc[p] = "loaded"
  /\ nadd < MaxAdds
  /\ ~HasSpace(name)
  /\ ~(flag7 /\ flag8)
  /\ nadd' = nadd + 1
  /\ cmd' = [cmd EXCEPT ![p] = [op |-> "add", name |-> name, text |-> <<>>,
                                flag7 |-> flag7, flag8 |-> flag8,
                                flagHotp |-> flagHotp]]
  /\ IOFail(p, "error reading key")
  /\ UNCHANGED <<disk, kc, log, loc, out, before, issued, lastAdd, ninv>>

\* add: os.OpenFile(c.file, os.O_CREATE|os.O_RDWR|os.O_APPEND, 0600)
AddOpen(p) ==
  /\ pc[p] = "add_open"
  /\ disk' = IF disk.exists THEN disk ELSE FileOf(<<>>)
  /\ Goto(p, "add_write")
  /\ UNCHANGED <<kc, log, cmd, loc, out, err, before, issued, lastAdd, ninv, nadd, nfail>>

AddOpenFail(p) ==
  /\ pc[p] = "add_open"
  /\ IOFail(p, "opening keychain")
  /\ UNCHANGED <<disk, kc, log, cmd, loc, out, before, issued, lastAdd, ninv, nadd>>

\* add: f.Write([]byte(line)) on a file opened with O_APPEND.
AddWrite(p) ==
  /\ pc[p] = "add_write"
  /\ disk' = FileOf(disk.data \o loc[p].line)
  /\ Goto(p, "add_close")
  /\ UNCHANGED <<kc, log, cmd, loc, out, err, before, issued, lastAdd, ninv, nadd, nfail>>

\* Where a failed Write of the line may have stopped.  Any length short of the
\* line is possible; the model draws from the ones that leave different kinds
\* of last line: nothing, a piece of the name, the record without its counter,
\* the record short of one byte of its last field, the record without its
\* newline.
AddCuts(line) ==
  {0, 1, Len(line) - counterLen - 2, Len(line) - 2, Len(line) - 1}
    \cap (0..(Len(line) - 1))

\* Write fails after m bytes of the line.
AddWriteFail(p) ==
  /\ pc[p] = "add_write"
  /\ \E m \in AddCuts(loc[p].line) :
       disk' = FileOf(disk.data \o SubSeq(loc[p].line, 1, m))
  /\ IOFail(p, "adding key")
  /\ UNCHANGED <<kc, log, cmd, loc, out, before, issued, lastAdd, ninv, nadd>>

\* add: f.Close(), and the return to main.
AddClose(p) ==
  /\ pc[p] = "add_close"
  /\ lastAdd' = [done |-> TRUE, name |-> cmd[p].name,
                 size |-> KeySize(cmd[p].flag7, cmd[p].flag8),
                 text |-> cmd[p].text, flagHotp |-> cmd[p].flagHotp,
                 prior |-> before[p], after |-> disk]
  /\ Goto(p, "done")
  /\ UNCHANGED <<disk, kc, log, cmd, loc, out, err, before, issued, ninv, nadd, nfail>>

AddCloseFail(p) ==
  /\ pc[p] = "add_close"
  /\ IOFail(p, "adding key")
  /\ UNCHANGED <<disk, kc, log, cmd, loc, out, before, issued, lastAdd, ninv, nadd>>

\* The process is gone: nothing of it is kept but the file.
Gone(p) ==
  /\ pc' = [pc EXCEPT ![p] = "idle"]
  /\ kc' = [kc EXCEPT ![p] = EmptyKeychain]
  /\ log' = [log EXCEPT ![p] = <<>>]
  /\ cmd' = [cmd EXCEPT ![p] = NoCmd]
  /\ loc' = [loc EXCEPT ![p] = NoLocals]
  /\ out' = [out EXCEPT ![p] = <<>>]
  /\ err' = [err EXCEPT ![p] = ""]
  /\ before' = [before EXCEPT ![p] = disk]
  /\ UNCHANGED <<disk, issued, lastAdd, ninv, nadd, nfail>>

\* main returns, or log.Fatal has called os.Exit(1).
Exit(p) ==
  /\ pc[p] \in {"done", "fatal"}
  /\ Gone(p)

\* The process is stopped from outside (a signal, a power cut) between two
\* steps: whatever it had not yet printed or written is lost.
Kill(p) ==
  /\ pc[p] \notin {"idle", "done", "fatal"}
  /\ Gone(p)

\* A caller that holds the loaded Keychain asks it for another code, without
\* reading the file again.
Again(p) ==
  /\ pc[p] = "done"
  /\ cmd[p].op = "show"
  /\ Len(out[p]) < MaxCodes
  /\ Goto(p, "loaded")
  /\ UNCHANGED <<disk, kc, log, cmd, loc, out, err, before, issued, lastAdd, ninv, nadd, nfail>>

\* One invocation of the program, as main runs it.
Run(p) ==
  \/ Load(p)
  \/ LoadFail(p)
  \/ List(p)
  \/ ShowAll(p)
  \/ \E name \in InputNames : Show(p, name)
  \/ CodeOpen(p)
  \/ CodeOpenFail(p)
  \/ CodeWrite(p)
  \/ CodeWriteFail(p)
  \/ CodeClose(p)
  \/ CodeCloseFail(p)
  \/ ShowPrint(p)
  \/ \E name \in AddNames, flag7, flag8, flagHotp \in BOOLEAN, typed \in InputTexts :
       Add(p, name, flag7, flag8, flagHotp, typed)
  \/ \E name \in AddNames, flag7, flag8, flagHotp \in BOOLEAN :
       AddReadFail(p, name, flag7, flag8, flagHotp)
  \/ AddOpen(p)
  \/ AddOpenFail(p)
  \/ AddWrite(p)
  \/ AddWriteFail(p)
  \/ AddClose(p)
  \/ AddCloseFail(p)
  \/ Kill(p)
  \/ Exit(p)

\* Invocations one after the other: the next starts when the last has exited.
Next == Run(1)

Spec == Init /\ [][Next]_vars

\* The loader and the operations that only read, on every file of LoadDisks.
LoadInit == InitWith(LoadDisks)
LoadNext == Load(1) \/ LoadFail(1) \/ List(1) \/ ShowAll(1) \/ Exit(1)
LoadSpec == LoadInit /\ [][LoadNext]_vars

\* The program, and callers that ask one loaded Keychain for several codes.
ApiNext == Run(1) \/ Again(1)
ApiSpec == Init /\ [][ApiNext]_vars

\* Files all of whose lines are empty or records: empty, or one record line of
\* either kind, with or without its newline.
RecordLines ==
  { Line3(<<"a">>, "6", SecretME),
    Line4(<<"b">>, "7", Secretme, Rep("0", 20)),
    Line4(<<"b">>, "8", SecretME, FormatCounter(MaxUint64)),
    Line4(<<"a">>, "6", SecretME, FormatCounter(NearMax)) }
RecordDisks ==
  {FileOf(<<>>)} \cup { FileOf(JoinLines(<<l>>, nl)) : l \in RecordLines, nl \in BOOLEAN }

\* Invocations that overlap: there is no lock, so between any two steps of one
\* process the other may take steps.
ConcInit == InitWith(RecordDisks)
ConcNext == \E p \in Procs : Run(p)
ConcSpec == ConcInit /\ [][ConcNext]_vars

(* ------------------------------------------------------------------ *)
(* What the file says, read off its bytes                              *)
(* ------------------------------------------------------------------ *)

\* A file is its newline-separated lines: one more than its newlines, the last
\* one empty when the file ends in a newline (or is empty).
TextLines(data) == Split(data, NL)
NumLines(data) == Len(TextLines(data))

\* Line j (from 1) without its newline, and the 0-based offset of its first byte.
TextLine(data, j) == TextLines(data)[j]
RECURSIVE OffsetIn(_, _)
OffsetIn(ls, j) == IF j = 1 THEN 0 ELSE OffsetIn(ls, j - 1) + Len(ls[j - 1]) + 1
LineOffset(data, j) == OffsetIn(TextLines(data), j)

RecordFields(l) == Split(l, SP)

\* 20 characters that are the decimal text of an unsigned 64-bit integer.
IsCounterText(s) ==
  /\ Len(s) = 20
  /\ \A i \in 1..20 : IsDigit(s[i])
  /\ ~U64Less(MaxUint64, [i \in 1..20 |-> DigitVal(s[i])])

\* A padded base32 text, in either case: whole groups of 8 characters of the
\* alphabet A-Z 2-7, the last group filled with 0, 1, 3, 4 or 6 '=' characters.
IsBase32(s) ==
  LET u == SelectSeq(s, LAMBDA c : c \notin {"\r", "\n"})
      letter(c) == \/ \E i \in 1..26 : c \in {UpperChars[i], LowerChars[i]}
                   \/ c \in {"2", "3", "4", "5", "6", "7"}
  IN /\ Len(u) % 8 = 0
     /\ \E pad \in {0, 1, 3, 4, 6} :
          /\ pad < Len(u) \/ pad = 0
          /\ \A i \in 1..(Len(u) - pad) : letter(u[i])
          /\ \A i \in (Len(u) - pad + 1)..Len(u) : u[i] = "="

\* A record line: 3 or 4 fields, a digits field of '6', '7' or '8', a secret
\* that decodes, and a counter field, if any, that is a counter text.
ValidRecord(l) ==
  LET f == RecordFields(l)
  IN /\ Len(f) \in {3, 4}
     /\ f[2] \in {<<"6">>, <<"7">>, <<"8">>}
     /\ IsBase32(f[3])
     /\ Len(f) = 4 => IsCounterText(f[4])

ValidLines(data) == {j \in 1..NumLines(data) : ValidRecord(TextLine(data, j))}
MalformedLines(data) ==
  {j \in 1..NumLines(data) : TextLine(data, j) # <<>> /\ ~ValidRecord(TextLine(data, j))}
LinesNamed(data, name) ==
  {j \in ValidLines(data) : RecordFields(TextLine(data, j))[1] = name}
LastLineNamed(data, name) ==
  LET L == LinesNamed(data, name)
  IN CHOOSE j \in L : \A i \in L : i <= j

\* The names that have a record line.
ValidNames(data) == {RecordFields(TextLine(data, j))[1] : j \in ValidLines(data)}

\* The 0-based offset of the counter field of the 4-field line j.
CounterOffsetOf(data, j) ==
  LET f == RecordFields(TextLine(data, j))
  IN LineOffset(data, j) + Len(f[1]) + 1 + Len(f[2]) + 1 + Len(f[3]) + 1

\* Invocation p has read a file that exists.
Loaded(p) == pc[p] \in {"loaded", "done"} /\ before[p].exists

\* Invocation p is "2fa name" for a key that the keychain holds with a counter.
ShowsCounterKey(p) ==
  /\ cmd[p].op = "show"
  /\ cmd[p].name \in DOMAIN kc[p].keys
  /\ kc[p].keys[cmd[p].name].offset # 0

\* Invocation p has loaded the file as the last add left it.
AddedAndReloaded(p) ==
  /\ lastAdd.done
  /\ pc[p] \in {"loaded", "code_open", "code_write", "code_close", "show_print", "done"}
  /\ before[p] = lastAdd.after

\* The digits of a counter text, and the successor of a 20-digit number.
DigitsOf(s) == [i \in 1..Len(s) |-> DigitVal(s[i])]
DecSucc(n) ==
  LET k == CHOOSE i \in 1..20 : n[i] # 9 /\ \A j \in (i + 1)..20 : n[j] = 9
  IN [i \in 1..20 |-> IF i < k THEN n[i] ELSE IF i = k THEN n[k] + 1 ELSE 0]

(* ------------------------------------------------------------------ *)
(* Claims                                                              *)
(* ------------------------------------------------------------------ *)

\* C1: No replay.  Across invocations that run one after the other, the
\* counters of the codes printed for one counter-based record (the record whose
\* counter field is at a given offset) are strictly increasing.
C1_NoReplay ==
  \A i, j \in 1..Len(issued) :
    (i < j /\ issued[i].offset = issued[j].offset)
      => U64Less(issued[i].counter, issued[j].counter)

\* C2: code on a counter-based record whose counter field held n at load time
\* computes hotp(secret, n+1, digits), and when it returns the 20 bytes of the
\* file at the record's offset are the decimal text of n+1.
C2_CodeAdvances ==
  \A p \in Procs :
    (ShowsCounterKey(p) /\ pc[p] \in {"show_print", "done"}) =>
      LET k == kc[p].keys[cmd[p].name]
          n == DigitsOf(CounterField(kc[p], k))
      IN /\ loc[p].code = hotp(k.raw, DecSucc(n), k.digits)
         /\ CounterBytes(disk.data, k.offset) = FormatCounter(DecSucc(n))

\* C3: Crash-safe ordering.  A code of a counter-based record is returned and
\* printed only after the new counter has been written to the file and the file
\* closed; an invocation that ended with a fatal error has printed nothing, and
\* whenever a code has been printed the counter on disk is the one it was
\* computed from, not the one that was loaded.
C3_CrashSafe ==
  \A p \in Procs :
    ShowsCounterKey(p) =>
      LET k == kc[p].keys[cmd[p].name]
          written == /\ disk.exists
                     /\ CounterBytes(disk.data, k.offset) = FormatCounter(loc[p].n)
                     /\ CounterBytes(disk.data, k.offset) # CounterField(kc[p], k)
      IN /\ pc[p] = "show_print" => written
         /\ out[p] # <<>> =>
              /\ pc[p] = "done"
              /\ written
              /\ out[p][1].text.code.counter = loc[p].n
         /\ pc[p] = "fatal" => out[p] = <<>>
         /\ pc[p] \in {"code_open", "code_write", "code_close"} => out[p] = <<>>

C3_Witness ==
  \E p \in Procs : ShowsCounterKey(p) /\ pc[p] = "done" /\ out[p] # <<>>

\* C4: After add of a counter-based key and a re-load, two calls of code on
\* that record of the loaded Keychain compute their codes from counter 1 and
\* then counter 2, and leave the counter field at 2 and the file length as it
\* was.
C4_TwoCodes ==
  \A p \in Procs :
    ( /\ pc[p] = "done"
      /\ ShowsCounterKey(p)
      /\ AddedAndReloaded(p)
      /\ lastAdd.name = cmd[p].name
      /\ lastAdd.flagHotp
      /\ Len(out[p]) = 2
      /\ out[p][1].of = cmd[p].name
      /\ out[p][2].of = cmd[p].name )
    => /\ out[p][1].text.code.counter = NatToU64(1)
       /\ out[p][2].text.code.counter = NatToU64(2)
       /\ CounterBytes(disk.data, kc[p].keys[cmd[p].name].offset) = FormatCounter(NatToU64(2))
       /\ Len(disk.data) = Len(before[p].data)

\* C5: showAll never advances a counter.  It leaves the file byte for byte as
\* it was, prints one line per key in sorted name order, prints for a
\* counter-based key digits dashes and no code, and computes a code (a totp)
\* only for a time-based key.
C5_ShowAllReadOnly ==
  \A p \in Procs :
    (pc[p] = "done" /\ cmd[p].op = "showAll" /\ before[p].exists) =>
      LET data == before[p].data
      IN /\ disk = before[p]
         /\ {out[p][i].name : i \in 1..Len(out[p])} = ValidNames(data)
         /\ \A i, j \in 1..Len(out[p]) :
              i < j => StrLess(out[p][i].name, out[p][j].name)
         /\ \A i \in 1..Len(out[p]) :
              LET f == RecordFields(TextLine(data, LastLineNamed(data, out[p][i].name)))
                  text == out[p][i].text
              IN /\ text.width = DigitVal(f[2][1])
                 /\ Len(f) = 4 => text.dashes /\ text.code = NoCode
                 /\ Len(f) = 3 =>
                      /\ ~text.dashes
                      /\ \E t \in Times :
                           text.code = totp(decodeKey(f[3]).raw, t, DigitVal(f[2][1]))

C5_Witness ==
  \E p \in Procs :
    /\ pc[p] = "done" /\ cmd[p].op = "showAll"
    /\ \E i, j \in 1..Len(out[p]) : out[p][i].text.dashes /\ ~out[p][j].text.dashes
    /\ disk = before[p]

\* C6: Load never aborts on what the file holds.  For every content of a file
\* that was read, the keychain has an entry for exactly the names that have a
\* valid record line; the log has exactly one line, with the file name and the
\* 1-based line number, for each non-empty line that is not a valid record, in
\* the order of the lines; an empty line gives no log line and no entry; and
\* the only fatal error of a load is the failure to read the file.
C6_LoadNeverAborts ==
  \A p \in Procs :
    /\ Loaded(p) =>
         LET data == before[p].data
         IN /\ DOMAIN kc[p].keys = ValidNames(data)
            /\ {log[p][i].lineno : i \in 1..Len(log[p])} = MalformedLines(data)
            /\ \A i, j \in 1..Len(log[p]) : i < j => log[p][i].lineno < log[p][j].lineno
            /\ \A i \in 1..Len(log[p]) : log[p][i].file = KeychainFile
    /\ (pc[p] = "fatal" /\ cmd[p].op = "") => err[p] = "read"

C6_Witness ==
  \E p \in Procs :
    /\ Loaded(p)
    /\ kc[p].keys # NoKeys
    /\ \E i \in 1..Len(log[p]) :
         /\ log[p][i].lineno > 1
         /\ \E j \in 1..(log[p][i].lineno - 1) : TextLine(before[p].data, j) = <<>>

\* C7: Load accepts a non-empty line as a record if and only if it has 3 or 4
\* space-separated fields, a digits field that is one of '6', '7', '8', a
\* secret that is base32 in either case and, with 4 fields, a counter field of
\* 20 characters that is an unsigned 64-bit decimal; the record of a 3-field
\* line is time-based and that of a 4-field line counter-based, with the
\* digits of the digits field.
C7_AcceptsIff ==
  \A p \in Procs :
    Loaded(p) =>
      LET data == before[p].data
          logged == {log[p][i].lineno : i \in 1..Len(log[p])}
      IN /\ \A j \in 1..NumLines(data) :
              TextLine(data, j) # <<>> =>
                (j \notin logged <=> ValidRecord(TextLine(data, j)))
         /\ \A j \in ValidLines(data) :
              LET f == RecordFields(TextLine(data, j))
                  r == ParseLine(f, TextLine(data, j), LineOffset(data, j) + Len(TextLine(data, j)))
              IN /\ r.ok
                 /\ r.key.digits = DigitVal(f[2][1])
                 /\ r.key.offset = 0 <=> Len(f) = 3
                 /\ f[1] \in DOMAIN kc[p].keys
                 /\ j = LastLineNamed(data, f[1]) =>
                      /\ kc[p].keys[f[1]].digits = DigitVal(f[2][1])
                      /\ kc[p].keys[f[1]].offset = 0 <=> Len(f) = 3

C7_Witness ==
  \E p \in Procs :
    /\ Loaded(p)
    /\ \E x, y \in DOMAIN kc[p].keys : kc[p].keys[x].offset = 0 /\ kc[p].keys[y].offset # 0
    /\ log[p] # <<>>

\* C8: Last-write-wins.  After Load the entry of every name of the index
\* (secret, digits, mode, counter offset) is that of the last valid record line
\* with that name; earlier valid lines and malformed lines with that name
\* change nothing, the load has not failed, and the file is as it was.
C8_LastWriteWins ==
  \A p \in Procs :
    Loaded(p) =>
      LET data == before[p].data
      IN /\ disk = before[p]
         /\ kc[p].data = data
         /\ \A name \in DOMAIN kc[p].keys :
              /\ LinesNamed(data, name) # {}
              /\ LET j == LastLineNamed(data, name)
                     f == RecordFields(TextLine(data, j))
                     k == kc[p].keys[name]
                 IN /\ k.raw = decodeKey(f[3]).raw
                    /\ k.digits = DigitVal(f[2][1])
                    /\ Len(f) = 3 => k.offset = 0
                    /\ Len(f) = 4 =>
                         /\ k.offset = CounterOffsetOf(data, j)
                         /\ k.offset # 0
                         /\ CounterBytes(data, k.offset) = f[4]

C8_Witness ==
  \E p \in Procs :
    /\ Loaded(p)
    /\ \E name \in DOMAIN kc[p].keys :
         LET data == before[p].data
             L == LinesNamed(data, name)
         IN /\ Cardinality(L) >= 2
            /\ \E i, j \in L : TextLine(data, i) # TextLine(data, j)
            /\ \E m \in MalformedLines(data) : RecordFields(TextLine(data, m))[1] = name

\* C9: Add/Load round trip.  Whatever the file held before (nothing, or any
\* bytes), after add of a name with a size and a key text that decodes, a
\* re-load has an entry for the name with that size and the decoded secret,
\* time-based without -hotp and counter-based with a counter field of 20 zero
\* characters with -hotp.
C9_AddLoadRoundTrip ==
  \A p \in Procs :
    AddedAndReloaded(p) =>
      /\ lastAdd.name \in DOMAIN kc[p].keys
      /\ LET k == kc[p].keys[lastAdd.name]
         IN /\ k.digits = lastAdd.size
            /\ k.raw = decodeKey(PadKey(noSpace(lastAdd.text))).raw
            /\ ~lastAdd.flagHotp => k.offset = 0
            /\ lastAdd.flagHotp =>
                 /\ k.offset # 0
                 /\ CounterField(kc[p], k) = Rep("0", 20)

\* C10: add rejects bad input before it touches the file.  When the name has
\* a whitespace character, or the key typed is not base32 once its whitespace
\* is dropped and it is padded, the invocation ends with a fatal error and the
\* file is as it was: not created if it was absent, unchanged if it existed.
C10_AddRejects ==
  \A p \in Procs :
    ( /\ cmd[p].op = "add"
      /\ \/ \E i \in 1..Len(cmd[p].name) : cmd[p].name[i] \in {" ", "\t", "\n", "\r"}
         \/ ~IsBase32(PadKey(noSpace(cmd[p].text))) )
    => /\ pc[p] = "fatal"
       /\ err[p] # ""
       /\ disk = before[p]

C10_Witness ==
  \E p \in Procs :
    /\ cmd[p].op = "add"
    /\ pc[p] = "fatal"
    /\ err[p] = "invalid key"
    /\ ~disk.exists

\* The step is one of invocation p.
StepOf(p) == pc'[p] # pc[p]

\* All 20 bytes of data from the 0-based offset off on are ASCII decimal digits.
DigitsAt(data, off) ==
  /\ off + counterLen <= Len(data)
  /\ \A i \in (off + 1)..(off + counterLen) : IsDigit(data[i])

\* C11: Fixed-width counter.  From a file whose lines are all empty or records,
\* under any interleaving of invocations: a step never changes a byte of a
\* counter-based record line other than the 20 bytes of its counter field, and
\* leaves there 20 ASCII decimal digits; and the step of code that rewrites a
\* counter leaves the length of the file as it is and changes no byte outside
\* the 20 bytes at the offset of the record it advances.
C11_Step ==
  /\ disk.exists =>
       /\ disk'.exists
       /\ Len(disk'.data) >= Len(disk.data)
       /\ \A j \in ValidLines(disk.data) :
            Len(RecordFields(TextLine(disk.data, j))) = 4 =>
              /\ \A i \in (LineOffset(disk.data, j) + 1)..CounterOffsetOf(disk.data, j) :
                   disk'.data[i] = disk.data[i]
              /\ DigitsAt(disk'.data, CounterOffsetOf(disk.data, j))
  /\ \A p \in Procs :
       (StepOf(p) /\ pc[p] = "code_write" /\ disk' # disk) =>
         LET off == kc[p].keys[loc[p].name].offset
         IN /\ Len(disk'.data) = Len(disk.data)
            /\ \A i \in 1..Len(disk.data) :
                 (i <= off \/ i > off + counterLen) => disk'.data[i] = disk.data[i]
            /\ DigitsAt(disk'.data, off)

C11_FixedWidth == [][C11_Step]_vars

C11_Witness ==
  /\ pc[1] = "code_close"
  /\ pc[2] = "add_close"
  /\ Len(disk.data) > Len(before[1].data)
  /\ SubSeq(disk.data, 1, Len(before[1].data)) # before[1].data

\* C12: Name invariant.  Every name of the index of a keychain that Load
\* returns, whatever the file holds, is non-empty and has no whitespace
\* character.
C12_Names ==
  \A p \in Procs :
    Loaded(p) =>
      \A name \in DOMAIN kc[p].keys :
        /\ name # <<>>
        /\ \A i \in 1..Len(name) : name[i] \notin {" ", "\t", "\n", "\r"}

\* Two invocations have loaded the same bytes, both were asked for a code of
\* the same counter-based key, and both have printed it.
BothIssued(p, q) ==
  /\ p # q
  /\ before[p] = before[q]
  /\ ShowsCounterKey(p) /\ ShowsCounterKey(q)
  /\ cmd[p].name = cmd[q].name
  /\ pc[p] = "done" /\ pc[q] = "done"
  /\ out[p] # <<>> /\ out[q] # <<>>

\* C13: Lost update.  There is no lock: when two invocations that overlap have
\* both loaded the file before either wrote, and both print a code of the same
\* counter-based record, the two codes are computed from the same counter and
\* the counter on disk has advanced by one only (from the top of the range, to
\* 0), not by two.
C13_LostUpdate ==
  \A p, q \in Procs :
    BothIssued(p, q) =>
      LET k == kc[p].keys[cmd[p].name]
          n == DigitsOf(CounterField(kc[p], k))
          next == IF n = MaxUint64 THEN Zero64 ELSE DecSucc(n)
      IN /\ out[p][1].text.code = out[q][1].text.code
         /\ out[p][1].text.code.counter = next
         /\ CounterBytes(disk.data, k.offset) = FormatCounter(next)

C13_Witness ==
  /\ BothIssued(1, 2)
  /\ out[1][1].text.code = out[2][1].text.code
  /\ Len(issued) = 2
  /\ issued[1].counter = issued[2].counter

\* The number a uint64 below 10^9 stands for.
U64Val(n) ==
  n[12] * 100000000 + n[13] * 10000000 + n[14] * 1000000 + n[15] * 100000
    + n[16] * 10000 + n[17] * 1000 + n[18] * 100 + n[19] * 10 + n[20]

\* Invocation p is "2fa name" for a time-based key, and code has returned.
ShowsTimeKey(p) ==
  /\ cmd[p].op = "show"
  /\ cmd[p].name \in DOMAIN kc[p].keys
  /\ kc[p].keys[cmd[p].name].offset = 0
  /\ pc[p] \in {"show_print", "done"}

\* C14: totp(secret, now, digits) is hotp(secret, c, digits) for the number c
\* of whole 30-second steps from the epoch to now: 30 c seconds have passed at
\* now and 30 (c + 1) seconds have not, to the nanosecond, with no window.
C14_TotpStep ==
  \A p \in Procs :
    ShowsTimeKey(p) =>
      LET k == kc[p].keys[cmd[p].name]
          c == loc[p].code.counter
      IN /\ loc[p].code = hotp(k.raw, c, k.digits)
         /\ \A i \in 1..11 : c[i] = 0
         /\ 30 * U64Val(c) <= loc[p].now.sec
         /\ loc[p].now.sec < 30 * U64Val(c) + 30

C14_Witness ==
  \E p \in Procs :
    /\ ShowsTimeKey(p)
    /\ pc[p] = "done"
    /\ loc[p].now = [sec |-> 59, nsec |-> 999999999]
    /\ out[p][1].text.code.counter = NatToU64(1)

\* Invocation p started when there was no file.
LoadedNoFile(p) == pc[p] # "idle" /\ ~before[p].exists

\* C15: A missing file is not an error.  Load returns a keychain with an
\* empty index and logs nothing; the file is not created by the load, nor by
\* list, showAll or code after it; list and showAll print nothing, and code
\* for any name ends with the fatal error "no such key".
C15_MissingFile ==
  \A p \in Procs :
    LoadedNoFile(p) =>
      /\ kc[p].keys = NoKeys
      /\ log[p] = <<>>
      /\ cmd[p].op = "" => pc[p] = "loaded"
      /\ cmd[p].op # "add" => ~disk.exists
      /\ cmd[p].op \in {"list", "showAll"} => pc[p] = "done" /\ out[p] = <<>>
      /\ cmd[p].op = "show" =>
           /\ pc[p] = "fatal"
           /\ out[p] = <<>>
           /\ ~HasSpace(cmd[p].name) => err[p] = "no such key"

C15_Witness ==
  \E p \in Procs :
    /\ LoadedNoFile(p)
    /\ cmd[p].op = "show"
    /\ err[p] = "no such key"
    /\ ~disk.exists

\* C16: Offset correctness.  After Load of any file, for every name whose
\* last valid line has a counter field, the offset of the entry and the offset
\* plus 20 lie within the buffer, and the 20 bytes of the buffer from the
\* offset on are the counter field of that line, where that field stands in
\* the file, whether the line ends in a newline or is the unterminated last
\* line.
C16_Offsets ==
  \A p \in Procs :
    Loaded(p) =>
      \A name \in ValidNames(before[p].data) :
        LET data == before[p].data
            j == LastLineNamed(data, name)
            f == RecordFields(TextLine(data, j))
        IN Len(f) = 4 =>
             /\ name \in DOMAIN kc[p].keys
             /\ LET off == kc[p].keys[name].offset
                IN /\ 0 <= off
                   /\ off + counterLen <= Len(kc[p].data)
                   /\ SubSeq(kc[p].data, off + 1, off + counterLen) = f[4]
                   /\ off + counterLen =
                        LineOffset(data, j) + Len(TextLine(data, j))

C16_Witness ==
  \E p \in Procs :
    /\ Loaded(p)
    /\ \E x, y \in DOMAIN kc[p].keys :
         LET data == before[p].data
         IN /\ x # y
            /\ kc[p].keys[x].offset # 0
            /\ kc[p].keys[y].offset + counterLen = Len(data)
            /\ LastLineNamed(data, x) < LastLineNamed(data, y)
            /\ LastLineNamed(data, y) = NumLines(data)

\* The only steps that change the file: the open and the write of add, and the
\* write of code for a key that is in the index with a counter.
C17_Step ==
  \A p \in Procs :
    (StepOf(p) /\ disk' # disk) =>
      \/ cmd[p].op = "add" /\ pc[p] \in {"add_open", "add_write"}
      \/ ShowsCounterKey(p) /\ pc[p] = "code_write"

\* What code has done for a name that is not in the index, and for a
\* time-based key; and what list has done.
C17_State ==
  \A p \in Procs :
    /\ (cmd[p].op = "show" /\ ~HasSpace(cmd[p].name)
          /\ cmd[p].name \notin DOMAIN kc[p].keys) =>
         pc[p] = "fatal" /\ err[p] = "no such key" /\ out[p] = <<>>
    /\ (cmd[p].op = "show" /\ cmd[p].name \in DOMAIN kc[p].keys
          /\ kc[p].keys[cmd[p].name].offset = 0) =>
         /\ pc[p] \in {"show_print", "done"}
         /\ \E t \in Times :
              loc[p].code = totp(kc[p].keys[cmd[p].name].raw, t,
                                 kc[p].keys[cmd[p].name].digits)
         /\ pc[p] = "done" => Len(out[p]) = 1 /\ out[p][1].text.code = loc[p].code
    /\ pc[p] \in {"code_open", "code_write", "code_close"} => ShowsCounterKey(p)
    /\ cmd[p].op = "list" => pc[p] = "done"

\* C17: code changes the file only for a name that is in the index with a
\* counter.  For a name that is not in the index it ends with the fatal error
\* "no such key" and has not opened or written the file; for a time-based key
\* it returns a code and no step of it changes a byte of the file; list
\* changes nothing either.
C17_CodeFrame == []C17_State /\ [][C17_Step]_vars

C17_Witness ==
  /\ ShowsTimeKey(1)
  /\ pc[1] = "done"
  /\ out[1] # <<>>
  /\ disk.exists
  /\ disk = before[1]
  /\ pc[2] = "fatal" /\ err[2] = "no such key"

\* C18: The increment does not wrap.  For every counter value that Load
\* accepts, the value code has written back is greater than the value it read,
\* is that value plus one, and stands in the file as 20 decimal digits.
C18_NoWrap ==
  \A p \in Procs :
    (ShowsCounterKey(p) /\ pc[p] \in {"code_close", "show_print", "done"}) =>
      LET k == kc[p].keys[cmd[p].name]
          read == DigitsOf(CounterField(kc[p], k))
          written == CounterBytes(disk.data, k.offset)
      IN /\ DigitsAt(disk.data, k.offset)
         /\ U64Less(read, DigitsOf(written))
         /\ DigitsOf(written) = DecSucc(read)

\* The fields of the last valid line of the loaded file with the name.
LastRecord(p, name) ==
  RecordFields(TextLine(before[p].data, LastLineNamed(before[p].data, name)))

\* C19: The mode is never misclassified.  For every record Load accepts, the
\* offset stored is non-zero exactly when the line has the counter field, also
\* for a record on the first line with an empty name and an empty secret; and
\* code and showAll treat a record with a counter field as counter-based (code
\* computes an hotp from the stored counter and goes on to write it, showAll
\* prints dashes) and a record without one as time-based (a totp, and nothing
\* written).
C19_Mode ==
  \A p \in Procs :
    (pc[p] # "idle" /\ before[p].exists) =>
      /\ \A name \in DOMAIN kc[p].keys :
           /\ LinesNamed(before[p].data, name) # {}
           /\ kc[p].keys[name].offset # 0 <=> Len(LastRecord(p, name)) = 4
      /\ (cmd[p].op = "show" /\ cmd[p].name \in DOMAIN kc[p].keys) =>
           LET k == kc[p].keys[cmd[p].name]
           IN IF Len(LastRecord(p, cmd[p].name)) = 4
              THEN /\ pc[p] \in {"code_open", "code_write", "code_close",
                                 "show_print", "done", "fatal"}
                   /\ pc[p] # "fatal" =>
                        /\ loc[p].code = hotp(k.raw, loc[p].n, k.digits)
                        /\ loc[p].n = Inc64(DigitsOf(LastRecord(p, cmd[p].name)[4]))
                   /\ pc[p] = "fatal" => err[p] # "no such key"
              ELSE /\ pc[p] \in {"show_print", "done"}
                   /\ \E t \in Times : loc[p].code = totp(k.raw, t, k.digits)
                   /\ disk = before[p]
      /\ (cmd[p].op = "showAll" /\ pc[p] = "done") =>
           \A i \in 1..Len(out[p]) :
             out[p][i].text.dashes <=> Len(LastRecord(p, out[p][i].name)) = 4

C19_Witness ==
  \E p \in Procs :
    /\ cmd[p].op = "show"
    /\ cmd[p].name = <<>>
    /\ pc[p] = "done"
    /\ kc[p].keys[<<>>].raw = <<>>
    /\ kc[p].keys[<<>>].offset = 4
    /\ out[p][1].text.code = hotp(<<>>, NatToU64(1), 6)

\* C20: The fatal error "malformed key counter" of code is unreachable.  In
\* every state, whatever the other invocation has written to the file since,
\* the 20 bytes of the buffer of a loaded keychain at the offset of each of its
\* counter-based entries are a counter text, so the parse in code succeeds and
\* no invocation has ended with that error.
C20_CounterParses ==
  \A p \in Procs :
    /\ err[p] # "malformed key counter"
    /\ \A name \in DOMAIN kc[p].keys :
         kc[p].keys[name].offset # 0 =>
           /\ kc[p].keys[name].offset + counterLen <= Len(kc[p].data)
           /\ IsCounterText(CounterBytes(kc[p].data, kc[p].keys[name].offset))

C20_Witness ==
  /\ ShowsCounterKey(1)
  /\ pc[1] = "code_open"
  /\ disk # before[1]
  /\ CounterBytes(disk.data, kc[1].keys[cmd[1].name].offset)
       # CounterField(kc[1], kc[1].keys[cmd[1].name])
  /\ pc[2] = "fatal"
  /\ err[2] = "updating keychain"

====
